---- MODULE Spec2Model ----
(***************************************************************************)
(* A model of docver: the version registry (src/src/versions.rs), the      *)
(* fast-import commit builder (src/src/git.rs) and the deploy command      *)
(* (src/src/commands/deploy.rs).                                           *)
(*                                                                         *)
(* Strings are sequences of one-character strings; their order is the      *)
(* byte order of Rust's String (Code gives the ASCII code).  Option<T> is  *)
(* a sequence of length 0 (None) or 1 (Some).                              *)
(***************************************************************************)
EXTENDS Integers, Sequences, FiniteSets, TLC

VARIABLES
    vec,          \* a Vec<Version> being sorted (tests::order_semver_and_dev_versions)
    vecSorted,    \* TRUE when the last operation on vec was sort()
    versions,     \* Versions.versions: tag -> Version
    aliases,      \* Versions.aliases: alias -> tag
    calls,        \* history: the arguments of the add calls made, in order
    document,     \* the items of a persisted version document being read
    out,          \* what the latest registry operation returned
    commit,       \* the Commit being built
    ops,          \* history: the builder calls made on the Commit, in order
    stream,       \* what write_to wrote, None before
    env,          \* the process environment: variable name -> value
    run,          \* what Commit::run saw of git fast-import and returned, None before
    cli,          \* the command being executed: its arguments and how far it is
    remote        \* the target branch: its versions.json, and the commit imported

vars == <<vec, vecSorted, versions, aliases, calls, document, out,
          commit, ops, stream, env, run, cli, remote>>

orderVars == <<vec, vecSorted>>

registryVars == <<versions, aliases, calls, document, out>>

commitVars == <<commit, ops, stream, env>>

runVars == <<run>>

cliVars == <<cli, remote>>

nonOrderVars == <<registryVars, commitVars, runVars, cliVars>>

nonRegistryVars == <<orderVars, commitVars, runVars, cliVars>>

nonCommitVars == <<orderVars, registryVars, runVars, cliVars>>

\* ------------------------------------------------------------------ bounds

MaxVec == 3

MaxCalls == 3

MaxItems == 3

MaxOps == 3

MaxStderr == 3

\* ------------------------------------------------------------------ strings

None == <<>>

Some(x) == <<x>>

Range(s) == {s[i] : i \in 1..Len(s)}

Front(s) == SubSeq(s, 1, Len(s) - 1)

Last(s) == s[Len(s)]

Max(S) == CHOOSE x \in S : \A y \in S : y <= x

EmptyMap == [x \in {} |-> x]

\* HashMap::insert, BTreeMap::insert
Insert(map, key, value) ==
    [k \in DOMAIN map \cup {key} |-> IF k = key THEN value ELSE map[k]]

Punct == <<"-", ".", "/">>

Digits == <<"0", "1", "2", "3", "4", "5", "6", "7", "8", "9">>

Lower == <<"a", "b", "c", "d", "e", "f", "g", "h", "i", "j", "k", "l", "m",
           "n", "o", "p", "q", "r", "s", "t", "u", "v", "w", "x", "y", "z">>

Index(s, c) == CHOOSE i \in 1..Len(s) : s[i] = c

\* The ASCII code of a character.
Code(c) ==
    IF c \in Range(Punct) THEN 44 + Index(Punct, c)
    ELSE IF c \in Range(Digits) THEN 47 + Index(Digits, c)
    ELSE IF c = "V" THEN 86
    ELSE IF c = "_" THEN 95
    ELSE 96 + Index(Lower, c)

IsDigit(c) == c \in Range(Digits)

DigitVal(c) == Code(c) - 48

\* Ordering of two strings, as <String as Ord>::cmp: bytewise lexicographic.
RECURSIVE StrCmp(_, _)
StrCmp(a, b) ==
    IF a = <<>> /\ b = <<>> THEN "Equal"
    ELSE IF a = <<>> THEN "Less"
    ELSE IF b = <<>> THEN "Greater"
    ELSE IF Code(Head(a)) < Code(Head(b)) THEN "Less"
    ELSE IF Code(Head(a)) > Code(Head(b)) THEN "Greater"
    ELSE StrCmp(Tail(a), Tail(b))

\* str::split(sep): the pieces between the separators (always at least one).
RECURSIVE Split(_, _)
Split(s, sep) ==
    IF \A i \in 1..Len(s) : s[i] # sep THEN <<s>>
    ELSE LET k == CHOOSE i \in 1..Len(s) :
                      s[i] = sep /\ \A j \in 1..(i - 1) : s[j] # sep
         IN  <<SubSeq(s, 1, k - 1)>> \o Split(SubSeq(s, k + 1, Len(s)), sep)

\* [String]::join(sep)
RECURSIVE Join(_, _)
Join(parts, sep) ==
    IF parts = <<>> THEN <<>>
    ELSE IF Len(parts) = 1 THEN parts[1]
    ELSE parts[1] \o <<sep>> \o Join(Tail(parts), sep)

\* The value of a string of decimal digits.
RECURSIVE NumVal(_)
NumVal(ds) == IF ds = <<>> THEN 0 ELSE 10 * NumVal(Front(ds)) + DigitVal(Last(ds))

IntCmp(x, y) == IF x < y THEN "Less" ELSE IF x > y THEN "Greater" ELSE "Equal"

Reverse(o) == IF o = "Less" THEN "Greater" ELSE IF o = "Greater" THEN "Less" ELSE "Equal"

\* ------------------------------------------------------------------ semver

\* A numeric identifier of semver: digits without a leading zero.
IsNumeric(p) ==
    /\ p # <<>>
    /\ \A i \in 1..Len(p) : IsDigit(p[i])
    /\ (Len(p) > 1 => p[1] # "0")

AllDigits(p) == p # <<>> /\ \A i \in 1..Len(p) : IsDigit(p[i])

IsIdentChar(c) == IsDigit(c) \/ c = "-" \/ c = "V" \/ c \in Range(Lower)

\* A pre-release identifier: non-empty, [0-9A-Za-z-], numeric ones without
\* a leading zero.
IsPreIdent(p) ==
    /\ p # <<>>
    /\ \A i \in 1..Len(p) : IsIdentChar(p[i])
    /\ (AllDigits(p) => IsNumeric(p))

\* semver::Version::parse: MAJOR.MINOR.PATCH[-PRERELEASE].  (The build
\* metadata part needs a '+', which is not a character of the model.)
SemverParse(text) ==
    LET hasPre == \E i \in 1..Len(text) : text[i] = "-"
        dash   == CHOOSE i \in 1..Len(text) :
                      text[i] = "-" /\ \A j \in 1..(i - 1) : text[j] # "-"
        core   == IF hasPre THEN SubSeq(text, 1, dash - 1) ELSE text
        pre    == IF hasPre THEN Split(SubSeq(text, dash + 1, Len(text)), ".")
                  ELSE <<>>
        nums   == Split(core, ".")
    IN  IF /\ Len(nums) = 3
           /\ \A i \in 1..3 : IsNumeric(nums[i])
           /\ \A i \in 1..Len(pre) : IsPreIdent(pre[i])
        THEN Some([major |-> NumVal(nums[1]), minor |-> NumVal(nums[2]),
                   patch |-> NumVal(nums[3]), pre |-> pre])
        ELSE None

\* Precedence of two pre-release identifiers.
IdentCmp(x, y) ==
    IF AllDigits(x) /\ AllDigits(y) THEN IntCmp(NumVal(x), NumVal(y))
    ELSE IF AllDigits(x) THEN "Less"
    ELSE IF AllDigits(y) THEN "Greater"
    ELSE StrCmp(x, y)

\* Precedence of two pre-release lists: none is above any; a longer list
\* is above its prefix.
RECURSIVE PreCmp(_, _)
PreCmp(p, q) ==
    IF p = <<>> /\ q = <<>> THEN "Equal"
    ELSE IF p = <<>> THEN "Less"
    ELSE IF q = <<>> THEN "Greater"
    ELSE IF IdentCmp(Head(p), Head(q)) # "Equal" THEN IdentCmp(Head(p), Head(q))
    ELSE PreCmp(Tail(p), Tail(q))

\* <semver::Version as Ord>::cmp
SemverCmp(a, b) ==
    IF a.major # b.major THEN IntCmp(a.major, b.major)
    ELSE IF a.minor # b.minor THEN IntCmp(a.minor, b.minor)
    ELSE IF a.patch # b.patch THEN IntCmp(a.patch, b.patch)
    ELSE IF a.pre = <<>> /\ b.pre = <<>> THEN "Equal"
    ELSE IF a.pre = <<>> THEN "Greater"
    ELSE IF b.pre = <<>> THEN "Less"
    ELSE PreCmp(a.pre, b.pre)

\* ------------------------------------------------------------------ Version

Version(tag, title) == [tag |-> tag, title |-> title]

\* str::trim_start_matches(['v', 'V']): every leading v or V is removed.
RECURSIVE TrimStartV(_)
TrimStartV(s) ==
    IF s # <<>> /\ s[1] \in {"v", "V"} THEN TrimStartV(Tail(s)) ELSE s

\* chars().take_while(|c| c.is_ascii_digit() || *c == '.')
RECURSIVE NumericPrefix(_)
NumericPrefix(s) ==
    IF s # <<>> /\ (IsDigit(s[1]) \/ s[1] = ".")
    THEN <<s[1]>> \o NumericPrefix(Tail(s))
    ELSE <<>>

\* while parts.len() < 3 { parts.push("0") }
RECURSIVE PadParts(_)
PadParts(parts) == IF Len(parts) < 3 THEN PadParts(Append(parts, <<"0">>)) ELSE parts

parse_semver_like(tag) ==
    LET trimmed == TrimStartV(tag)
        prefix  == NumericPrefix(trimmed)
        parts   == Split(prefix, ".")
    IN  IF SemverParse(trimmed) # None THEN SemverParse(trimmed)
        ELSE IF prefix # <<>> /\ \A i \in 1..Len(parts) : AllDigits(parts[i])
        THEN SemverParse(Join(PadParts(parts), "."))
        ELSE None

\* ------------------------------------------------------------------ tags

T_dev     == <<"d", "e", "v">>
T_main    == <<"m", "a", "i", "n">>
T_alpha   == <<"a", "l", "p", "h", "a">>
T_1_2_3   == <<"1", ".", "2", ".", "3">>
T_1_2_10  == <<"1", ".", "2", ".", "1", "0">>
T_v1_10_0 == <<"v", "1", ".", "1", "0", ".", "0">>
T_v0_8_or_older == <<"v", "0", ".", "8", "_", "o", "r", "_", "o", "l", "d", "e", "r">>
T_1_0     == <<"1", ".", "0">>
T_1_0_0   == <<"1", ".", "0", ".", "0">>
T_v1_0_0  == <<"v", "1", ".", "0", ".", "0">>
T_v2_0_0  == <<"v", "2", ".", "0", ".", "0">>
T_V2      == <<"V", "2">>
T_1_0_0_rc == <<"1", ".", "0", ".", "0", "-", "r", "c">>
T_01_0    == <<"0", "1", ".", "0">>
T_1_2_3_4 == <<"1", ".", "2", ".", "3", ".", "4">>
T_v       == <<"v">>

\* The tags sorted: those of the repository's tests, and tags at the edges
\* of parse_semver_like.
OrderTags ==
    {T_dev, T_main, T_1_2_3, T_1_2_10, T_v1_10_0, T_v0_8_or_older,
     T_1_0, T_v1_0_0, T_V2, T_1_0_0_rc, T_01_0, T_1_2_3_4, T_v}

\* Every tag of the model.
KnownTags == OrderTags \cup {T_alpha, T_1_0_0, T_v2_0_0}

\* parse_semver_like of the tags of the model, computed once.
ParsedTags == [t \in KnownTags |-> parse_semver_like(t)]

\* parse_semver_like(tag), as cmp calls it.
Parsed(tag) == IF tag \in KnownTags THEN ParsedTags[tag] ELSE parse_semver_like(tag)

\* <Version as Ord>::cmp
cmp(self, other) ==
    LET a == Parsed(self.tag)
        b == Parsed(other.tag)
    IN  IF a # None /\ b # None THEN SemverCmp(b[1], a[1])
        ELSE IF a # None THEN "Greater"
        ELSE IF b # None THEN "Less"
        ELSE StrCmp(other.tag, self.tag)

\* As SortVersions, but the vector is left in the order it came in.
SortVersions_Unsorted(v) == v

\* One step of a stable sort: x, which came after every element of the
\* sorted sequence s, goes behind the elements that are not greater.
InsertStable(s, x) ==
    LET k == Cardinality({i \in 1..Len(s) : cmp(s[i], x) # "Greater"})
    IN  SubSeq(s, 1, k) \o <<x>> \o SubSeq(s, k + 1, Len(s))

\* [Version]::sort(): a stable sort by cmp.
RECURSIVE SortVersions(_)
SortVersions(v) ==
    IF v = <<>> THEN <<>> ELSE InsertStable(SortVersions(Front(v)), Last(v))

\* ------------------------------------------------------------------ Commit

\* 0o100644, the mode add_file gives a file.
FileMode == 33188

P_a_txt == <<"a", ".", "t", "x", "t">>
P_b_txt == <<"b", ".", "t", "x", "t">>
P_a     == <<"a">>
P_v1    == <<"v", "1">>
P_v1_a  == <<"v", "1", "/", "a">>

RefName == <<"r", "e", "f", "s", "/", "h", "e", "a", "d", "s", "/", "g", "h", "-",
            "p", "a", "g", "e", "s">>

Message_1 == <<"d", "e", "p", "l", "o", "y">>

Parent_1 == <<"a", "b", "c", "1", "2", "3">>

\* What the builder calls are made with.
FilePaths == {P_a_txt, P_b_txt, P_a}

FileModes == {FileMode, 420}

FileDatas == {<<>>, <<10, 7>>}

DeletePaths == {P_v1, P_v1_a}

\* Commit::new
NewCommit(refname) ==
    [refname    |-> refname,
     author     |-> None,
     committer  |-> None,
     message    |-> <<>>,
     from       |-> None,
     delete_all |-> FALSE,
     deletes    |-> {},
     files      |-> EmptyMap]

InitCommit ==
    /\ commit = Some(NewCommit(RefName))
    /\ ops = <<>>
    /\ stream = None
    /\ env = EmptyMap
    /\ run = None

\* The least string of a non-empty set.
MinStr(S) == CHOOSE x \in S : \A y \in S : StrCmp(x, y) # "Greater"

\* As SortedKeys, but from the greatest key down.
RECURSIVE SortedKeys_Descending(_)
SortedKeys_Descending(S) ==
    IF S = {} THEN <<>>
    ELSE LET m == CHOOSE x \in S : \A y \in S : StrCmp(x, y) # "Less"
         IN  <<m>> \o SortedKeys_Descending(S \ {m})

\* The keys of a BTreeMap<String, _> in the order it iterates: ascending.
RECURSIVE SortedKeys(_)
SortedKeys(S) ==
    IF S = {} THEN <<>> ELSE <<MinStr(S)>> \o SortedKeys(S \ {MinStr(S)})

\* Commit::message
message(c, m) == [c EXCEPT !.message = m]

\* Commit::parent
parent(c, p) == [c EXCEPT !.from = Some(p)]

\* Commit::delete_path
delete_path(c, path) == [c EXCEPT !.deletes = @ \cup {path}]

\* Commit::add_bytes
add_bytes(c, path, mode, bytes) ==
    [c EXCEPT !.files = Insert(@, path, [mode |-> mode, data |-> bytes])]

\* Commit::add_file: read is what fs::read(src) gave, None for an error.
add_file(c, dest_path, read) ==
    IF read = None THEN None ELSE Some(add_bytes(c, dest_path, FileMode, read[1]))

\* The octal digits of n, the least significant last.
RECURSIVE OctalDigits(_)
OctalDigits(n) ==
    IF n < 8 THEN <<Digits[n + 1]>> ELSE Append(OctalDigits(n \div 8), Digits[(n % 8) + 1])

\* Zeros in front of the digits, up to the width.
RECURSIVE PadZeros(_, _)
PadZeros(ds, width) == IF Len(ds) < width THEN PadZeros(<<"0">> \o ds, width) ELSE ds

\* format!("{:06o}", mode)
Octal6(mode) == PadZeros(OctalDigits(mode), 6)

PkgName == "CARGO_PKG_NAME"

DEFAULT_AUTHOR_NAME == <<PkgName, "[", "b", "o", "t", "]">>

DEFAULT_AUTHOR_EMAIL ==
    <<PkgName, "[", "b", "o", "t", "]", "@", "u", "s", "e", "r", "s", ".", "n", "o", "r", "e",
      "p", "l", "y", ".", "g", "i", "t", "h", "u", "b", ".", "i", "o">>

\* s.replace(['<', '>', '\n'], "")
RECURSIVE sanitize_identity_part(_)
sanitize_identity_part(s) ==
    IF s = <<>> THEN <<>>
    ELSE IF Head(s) \in {"<", ">", "\n"} THEN sanitize_identity_part(Tail(s))
    ELSE <<Head(s)>> \o sanitize_identity_part(Tail(s))

\* get_env_value: the variable GIT_<scope>_<field>, sanitized.
get_env_value(e, scope, field) ==
    IF <<scope, field>> \in DOMAIN e THEN Some(sanitize_identity_part(e[<<scope, field>>]))
    ELSE None

OrElse(a, b) == IF a # None THEN a ELSE b

UnwrapOr(a, d) == IF a # None THEN a[1] ELSE d

\* Commit::now_when at the second secs: "<secs> +0000"
now_when(secs) == <<secs, " ", "+", "0", "0", "0", "0">>

\* Commit::resolve_author
resolve_author(c, e, secs) ==
    IF c.author # None THEN c.author[1]
    ELSE <<UnwrapOr(OrElse(get_env_value(e, "AUTHOR", "NAME"),
                           get_env_value(e, "COMMITTER", "NAME")), DEFAULT_AUTHOR_NAME),
           UnwrapOr(OrElse(get_env_value(e, "AUTHOR", "EMAIL"),
                           get_env_value(e, "COMMITTER", "EMAIL")), DEFAULT_AUTHOR_EMAIL),
           UnwrapOr(get_env_value(e, "AUTHOR", "DATE"), now_when(secs))>>

\* Commit::resolve_committer
resolve_committer(c, e, default_name, default_email, default_when) ==
    IF c.committer # None THEN c.committer[1]
    ELSE <<UnwrapOr(get_env_value(e, "COMMITTER", "NAME"), default_name),
           UnwrapOr(get_env_value(e, "COMMITTER", "EMAIL"), default_email),
           UnwrapOr(get_env_value(e, "COMMITTER", "DATE"), default_when)>>

name_field(name) == IF name = <<>> THEN <<>> ELSE name \o <<" ">>

\* The "D <path>" lines of write_to.
DeleteLines(c) ==
    LET paths == SortedKeys(c.deletes)
    IN  [i \in 1..Len(paths) |-> <<"D", paths[i]>>]

\* The lines write_to writes for the files from the i-th path on.
RECURSIVE FileLines(_, _, _)
FileLines(c, paths, i) ==
    IF i > Len(paths) THEN <<>>
    ELSE LET entry == c.files[paths[i]]
         IN  << <<"M", Octal6(entry.mode), "inline", paths[i]>>,
                <<"data", Len(entry.data)>>,
                <<"raw", entry.data>> >> \o FileLines(c, paths, i + 1)

\* write_to with the D lines after the M blocks.
write_to_DeletesLast(c, e, secs) ==
    LET a  == resolve_author(c, e, secs)
        cm == resolve_committer(c, e, a[1], a[2], a[3])
    IN  << <<"commit", c.refname>>,
           <<"author", name_field(a[1]), <<"<">> \o a[2] \o <<">">>, a[3]>>,
           <<"committer", name_field(cm[1]), <<"<">> \o cm[2] \o <<">">>, cm[3]>>,
           <<"data", Len(c.message)>>,
           <<"text", c.message>> >>
        \o (IF c.from # None THEN << <<"from", c.from[1]>> >> ELSE <<>>)
        \o (IF c.delete_all THEN << <<"deleteall">> >> ELSE <<>>)
        \o FileLines(c, SortedKeys(DOMAIN c.files), 1)
        \o DeleteLines(c)
        \o << <<"done">> >>

\* Commit::write_to: the lines written, each the fields of its format.
write_to(c, e, secs) ==
    LET a  == resolve_author(c, e, secs)
        cm == resolve_committer(c, e, a[1], a[2], a[3])
    IN  << <<"commit", c.refname>>,
           <<"author", name_field(a[1]), <<"<">> \o a[2] \o <<">">>, a[3]>>,
           <<"committer", name_field(cm[1]), <<"<">> \o cm[2] \o <<">">>, cm[3]>>,
           <<"data", Len(c.message)>>,
           <<"text", c.message>> >>
        \o (IF c.from # None THEN << <<"from", c.from[1]>> >> ELSE <<>>)
        \o (IF c.delete_all THEN << <<"deleteall">> >> ELSE <<>>)
        \o DeleteLines(c)
        \o FileLines(c, SortedKeys(DOMAIN c.files), 1)
        \o << <<"done">> >>

\* A builder call can be made: the Commit is there and not yet written out.
Building == commit # None /\ stream = None /\ Len(ops) < MaxOps

SetMessage(m) ==
    /\ Building
    /\ commit' = Some(message(commit[1], m))
    /\ ops' = Append(ops, [op |-> "message", message |-> m])
    /\ UNCHANGED <<stream, env, nonCommitVars>>

SetParent(p) ==
    /\ Building
    /\ commit' = Some(parent(commit[1], p))
    /\ ops' = Append(ops, [op |-> "parent", commit |-> p])
    /\ UNCHANGED <<stream, env, nonCommitVars>>

DeletePath(path) ==
    /\ Building
    /\ commit' = Some(delete_path(commit[1], path))
    /\ ops' = Append(ops, [op |-> "delete_path", path |-> path])
    /\ UNCHANGED <<stream, env, nonCommitVars>>

AddBytes(path, mode, bytes) ==
    /\ Building
    /\ commit' = Some(add_bytes(commit[1], path, mode, bytes))
    /\ ops' = Append(ops, [op |-> "add", path |-> path, mode |-> mode, data |-> bytes])
    /\ UNCHANGED <<stream, env, nonCommitVars>>

\* add_file whose source is read.
AddFileOk(dest_path, bytes) ==
    /\ Building
    /\ commit' = add_file(commit[1], dest_path, Some(bytes))
    /\ ops' = Append(ops, [op |-> "add", path |-> dest_path, mode |-> FileMode,
                           data |-> bytes])
    /\ UNCHANGED <<stream, env, nonCommitVars>>

\* add_file whose source cannot be read: the error is returned, the Commit
\* is gone.
AddFileErr(dest_path) ==
    /\ Building
    /\ commit' = add_file(commit[1], dest_path, None)
    /\ ops' = Append(ops, [op |-> "add_file_failed", path |-> dest_path])
    /\ UNCHANGED <<stream, env, nonCommitVars>>

\* Commit::write_to, at the second secs of the clock.
WriteTo(secs) ==
    /\ commit # None
    /\ stream = None
    /\ stream' = Some(write_to(commit[1], env, secs))
    /\ UNCHANGED <<commit, ops, env, nonCommitVars>>

\* ------------------------------------------------------------------ Commit::run

\* The diagnostic output of git fast-import is a sequence of pieces of
\* text; the phrases run looks for are pieces.
NotUpdating    == "Not updating"
DoesNotContain == "does not contain"
NonFastForward == "non-fast-forward"

StderrPieces == {NotUpdating, DoesNotContain, NonFastForward, "fatal: bad input", " ", "\n"}

Whitespace == {" ", "\n"}

\* str::trim
RECURSIVE TrimStart(_)
TrimStart(text) ==
    IF text # <<>> /\ Head(text) \in Whitespace THEN TrimStart(Tail(text)) ELSE text

RECURSIVE TrimEnd(_)
TrimEnd(text) ==
    IF text # <<>> /\ Last(text) \in Whitespace THEN TrimEnd(Front(text)) ELSE text

Trim(text) == TrimEnd(TrimStart(text))

\* str::contains
Contains(text, phrase) == phrase \in Range(text)

Ok == [ok |-> TRUE]

Err(kind, text) == [ok |-> FALSE, kind |-> kind, text |-> text]

\* As IsNonFastForward, but the words "non-fast-forward" are required.
IsNonFastForward_Narrow(stderr_trimmed) ==
    /\ Contains(stderr_trimmed, NotUpdating)
    /\ Contains(stderr_trimmed, NonFastForward)

\* The condition of run for the non-fast-forward hint.
IsNonFastForward(stderr_trimmed) ==
    /\ Contains(stderr_trimmed, NotUpdating)
    /\ (Contains(stderr_trimmed, DoesNotContain) \/ Contains(stderr_trimmed, NonFastForward))

Hint ==
    " (non-fast-forward). The new commit must descend from the current branch tip. Hint: base the import on the tip (set a parent) or recreate/reset the branch.\nFull error: "

\* What run returns for a child that exited with the status and the
\* diagnostic output.
Classify(c, status, stderr) ==
    IF status = 0 THEN Ok
    ELSE IF IsNonFastForward(Trim(stderr))
    THEN Err("non_fast_forward",
             <<"git fast-import refused to update ", c.refname, Hint, Trim(stderr)>>)
    ELSE Err("failed", <<"git fast-import failed: ", Trim(stderr)>>)

\* What git fast-import does in a call of run: whether it is spawned,
\* whether the document is written to its input without an IO error,
\* whether waiting for it succeeds, and its exit status and diagnostic output.
Children(stderrs) ==
    [spawn : BOOLEAN, pipe : BOOLEAN, wait : BOOLEAN, status : {0, 1, 128}, stderr : stderrs]

\* Commit::run: what it returns.
run_result(c, child) ==
    IF ~child.spawn THEN Err("spawn", <<"failed to spawn git fast-import">>)
    ELSE IF ~child.pipe THEN Err("io", <<>>)
    ELSE IF ~child.wait THEN Err("wait", <<"failed to wait on git fast-import">>)
    ELSE Classify(c, child.status, child.stderr)

\* What run saw of the child: nothing of a step it did not reach.
Seen(child) ==
    [spawned |-> child.spawn,
     piped   |-> child.spawn /\ child.pipe,
     waited  |-> child.spawn /\ child.pipe /\ child.wait,
     status  |-> IF child.spawn /\ child.pipe /\ child.wait THEN Some(child.status) ELSE None,
     stderr  |-> IF child.spawn /\ child.pipe /\ child.wait THEN Some(child.stderr) ELSE None]

\* Commit::run, at the second secs of the clock.
Run(child, secs) ==
    /\ commit # None
    /\ run = None
    /\ run' = Some([seen |-> Seen(child), result |-> run_result(commit[1], child)])
    /\ stream' = IF child.spawn THEN Some(write_to(commit[1], env, secs)) ELSE stream
    /\ UNCHANGED <<commit, ops, env, orderVars, registryVars, cliVars>>

\* ------------------------------------------------------------------ Versions

A_latest == <<"l", "a", "t", "e", "s", "t">>
A_stable == <<"s", "t", "a", "b", "l", "e">>
A_edge   == <<"e", "d", "g", "e">>

Title_1  == <<"t", "i", "t", "l", "e">>

\* What the registry operations are called with.
RegTags == {T_dev, T_v2_0_0, T_1_0, T_v1_0_0}

RegTitles == {None, Some(Title_1)}

RegAliases == {A_latest, A_stable}

DefaultAliases == {A_latest, A_stable, A_edge}

\* The orders in which a HashMap may iterate over the keys ks.
Orders(ks) ==
    {f \in [1..Cardinality(ks) -> ks] : \A i, j \in DOMAIN f : f[i] = f[j] => i = j}

\* Iterator::filter on a sequence
RECURSIVE Filter(_, _)
Filter(s, keep) ==
    IF s = <<>> THEN <<>>
    ELSE IF Head(s) \in keep THEN <<Head(s)>> \o Filter(Tail(s), keep)
    ELSE Filter(Tail(s), keep)

\* Versions::default()
InitRegistry ==
    /\ versions = EmptyMap
    /\ aliases = EmptyMap
    /\ calls = <<>>
    /\ document = <<>>
    /\ out = [op |-> "new"]

\* As InsertAliases, but an alias already bound keeps its tag.
InsertAliases_FirstWins(map, als, tag) ==
    [a \in DOMAIN map \cup als |-> IF a \in DOMAIN map THEN map[a] ELSE tag]

\* As InsertAliases, but an alias already bound to the tag is unbound.
InsertAliases_Toggle(map, als, tag) ==
    [a \in (DOMAIN map \cup als) \ {b \in als \cap DOMAIN map : map[b] = tag} |->
        IF a \in als THEN tag ELSE map[a]]

\* for alias in aliases { self.aliases.insert(alias, version_tag.clone()) }
InsertAliases(map, als, tag) ==
    [a \in DOMAIN map \cup als |-> IF a \in als THEN tag ELSE map[a]]

\* Versions::add
Add(version_tag, title, als) ==
    /\ versions' = Insert(versions, version_tag, Version(version_tag, title))
    /\ aliases' = InsertAliases(aliases, als, version_tag)
    /\ out' = [op |-> "add", value |-> Some(versions'[version_tag])]
    /\ UNCHANGED <<document, nonRegistryVars>>

\* Versions::add, the call not recorded.
AddPlain(version_tag, title, als) ==
    /\ Add(version_tag, title, als)
    /\ UNCHANGED calls

\* Versions::add, the call recorded in the history.
AddLogged(version_tag, title, als) ==
    /\ Len(calls) < MaxCalls
    /\ Add(version_tag, title, als)
    /\ calls' = Append(calls, [tag |-> version_tag, title |-> title, aliases |-> als])

\* As AliasesOf, but the filter looks at the alias and not at its tag.
AliasesOf_ByKey(als, aorder, tag) ==
    Filter(aorder, {a \in DOMAIN als : a = tag})

\* The aliases bound to a tag, in the order the alias map iterates.
AliasesOf(als, aorder, tag) ==
    Filter(aorder, {a \in DOMAIN als : als[a] = tag})

\* The VersionWithAliases written for one version.
EntryOf(version, als, aorder) ==
    [version |-> version.tag,
     title   |-> Some(IF version.title = None THEN version.tag ELSE version.title[1]),
     aliases |-> AliasesOf(als, aorder, version.tag)]

\* <Versions as Serialize>::serialize, the maps iterating in the orders
\* vorder and aorder.
ToDocument(vs, als, vorder, aorder) ==
    LET sorted == SortVersions([i \in 1..Len(vorder) |-> vs[vorder[i]]])
    IN  [i \in 1..Len(sorted) |-> EntryOf(sorted[i], als, aorder)]

Serialize(vorder, aorder) ==
    /\ out' = [op |-> "serialize", doc |-> ToDocument(versions, aliases, vorder, aorder)]
    /\ UNCHANGED <<versions, aliases, calls, document, nonRegistryVars>>

DuplicateTag == "duplicate version tag"

\* As FromItems, but a repeated tag replaces the version read before.
RECURSIVE FromItems_Overwrite(_, _, _)
FromItems_Overwrite(items, vs, als) ==
    IF items = <<>> THEN [ok |-> TRUE, versions |-> vs, aliases |-> als]
    ELSE LET v == Head(items)
         IN  FromItems_Overwrite(Tail(items),
                                 [t \in DOMAIN vs \cup {v.version} |->
                                     IF t = v.version THEN Version(v.version, v.title)
                                     ELSE vs[t]],
                                 [a \in DOMAIN als \cup Range(v.aliases) |->
                                     IF a \in Range(v.aliases) THEN v.version ELSE als[a]])

\* The loop of <Versions as Deserialize>::deserialize over the items left.
RECURSIVE FromItems(_, _, _)
FromItems(items, vs, als) ==
    IF items = <<>> THEN [ok |-> TRUE, versions |-> vs, aliases |-> als]
    ELSE LET v == Head(items)
         IN  IF v.version \in DOMAIN vs
             THEN [ok |-> FALSE, err |-> DuplicateTag]
             ELSE FromItems(Tail(items),
                            Insert(vs, v.version, Version(v.version, v.title)),
                            InsertAliases(als, Range(v.aliases), v.version))

\* <Versions as Deserialize>::deserialize
FromDocument(items) == FromItems(items, EmptyMap, EmptyMap)

\* serde_json::from_str of the document just written.
Deserialize ==
    /\ out.op = "serialize"
    /\ out' = [op |-> "deserialize", result |-> FromDocument(out.doc)]
    /\ UNCHANGED <<versions, aliases, calls, document, nonRegistryVars>>

Slash == <<"/">>

\* "/{}/* /{}/:splat 200"
AliasLine(alias, tag) ==
    Slash \o alias \o <<"/", "*", " ", "/">> \o tag
          \o <<"/", ":", "s", "p", "l", "a", "t", " ", "2", "0", "0">>

\* "/* /{}/:splat 200"
CatchAllLine(tag) ==
    <<"/", "*", " ", "/">> \o tag
          \o <<"/", ":", "s", "p", "l", "a", "t", " ", "2", "0", "0">>

\* As RewriteLoop, but every alias is taken for the default alias.
RECURSIVE RewriteLoop_AnyAlias(_, _, _, _)
RewriteLoop_AnyAlias(als, aorder, default_alias, acc) ==
    IF aorder = <<>> THEN acc
    ELSE RewriteLoop_AnyAlias(als, Tail(aorder), default_alias,
            [lines       |-> Append(acc.lines, <<"/">> \o Head(aorder)
                                 \o <<"/", "*", " ", "/">> \o als[Head(aorder)]
                                 \o <<"/", ":", "s", "p", "l", "a", "t", " ", "2", "0", "0">>),
             default_tag |-> <<als[Head(aorder)]>>])

\* The loop of netlify_rewrites over the aliases left: the lines written
\* and the default tag found.
RECURSIVE RewriteLoop(_, _, _, _)
RewriteLoop(als, aorder, default_alias, acc) ==
    IF aorder = <<>> THEN acc
    ELSE LET alias == Head(aorder)
             tag   == als[alias]
         IN  RewriteLoop(als, Tail(aorder), default_alias,
                [lines       |-> Append(acc.lines, AliasLine(alias, tag)),
                 default_tag |-> IF alias = default_alias THEN Some(tag)
                                 ELSE acc.default_tag])

\* Versions::netlify_rewrites: the lines of the document.
netlify_rewrites(als, aorder, default_alias) ==
    LET r == RewriteLoop(als, aorder, default_alias,
                         [lines |-> <<>>, default_tag |-> None])
    IN  IF r.default_tag # None
        THEN Append(r.lines, CatchAllLine(r.default_tag[1]))
        ELSE r.lines

NetlifyRewrites(default_alias, aorder) ==
    /\ out' = [op |-> "rewrites", default_alias |-> default_alias,
               lines |-> netlify_rewrites(aliases, aorder, default_alias)]
    /\ UNCHANGED <<versions, aliases, calls, document, nonRegistryVars>>

\* No command is being executed.
InitCli ==
    /\ cli = [pc |-> "idle"]
    /\ remote = [doc |-> None, imported |-> None]

Init ==
    /\ InitRegistry
    /\ vec = <<>>
    /\ vecSorted = FALSE
    /\ InitCommit
    /\ InitCli

Next ==
    \/ \E tag \in RegTags, title \in RegTitles, als \in SUBSET RegAliases :
           AddPlain(tag, title, als)
    \/ \E vorder \in Orders(DOMAIN versions), aorder \in Orders(DOMAIN aliases) :
           Serialize(vorder, aorder)
    \/ Deserialize
    \/ \E d \in DefaultAliases, aorder \in Orders(DOMAIN aliases) :
           NetlifyRewrites(d, aorder)

Spec == Init /\ [][Next]_vars

\* Sequences of add calls, recorded.
NextAdd ==
    \E tag \in RegTags, title \in RegTitles, als \in SUBSET RegAliases :
        AddLogged(tag, title, als)

SpecAdd == Init /\ [][NextAdd]_vars

\* The items a persisted document is made of.
ParseItems ==
    [version : {T_dev, T_1_0, T_v1_0_0},
     title   : RegTitles,
     aliases : {<<>>, <<A_latest, A_stable>>}]

\* One more item of the document is read.
ReadItem(item) ==
    /\ out.op = "new"
    /\ Len(document) < MaxItems
    /\ document' = Append(document, item)
    /\ UNCHANGED <<versions, aliases, calls, out, nonRegistryVars>>

\* serde_json::from_str::<Versions> of the document read.
Parse ==
    /\ out.op = "new"
    /\ out' = [op |-> "parse", result |-> FromDocument(document)]
    /\ UNCHANGED <<versions, aliases, calls, document, nonRegistryVars>>

NextParse ==
    \/ \E item \in ParseItems : ReadItem(item)
    \/ Parse

SpecParse == Init /\ [][NextParse]_vars

\* ------------------------------------------------------------------ claims on the registry

\* The (tag, title, aliases bound to the tag) triples of a registry.
Triples(vs, als) ==
    {<<t, vs[t].title, {a \in DOMAIN als : als[a] = t}>> : t \in DOMAIN vs}

\* The title a version is displayed and written with.
ResolvedTitle(v) == IF v.title = None THEN v.tag ELSE v.title[1]

\* The triples of a registry, every title resolved.
ResolvedTriples(vs, als) ==
    {<<t, Some(ResolvedTitle(vs[t])), {a \in DOMAIN als : als[a] = t}>> : t \in DOMAIN vs}

\* C2, as claimed: the document written for a registry is read back as a
\* registry with the same (tag, title, aliases) triples.
C2_RoundTripExact ==
    out.op = "deserialize" =>
        /\ out.result.ok
        /\ Triples(out.result.versions, out.result.aliases) = Triples(versions, aliases)

\* C2, amended: the document written for a registry is read back as a
\* registry with the same tags and the same aliases bound to each tag, the
\* title of each version being the explicit title if there is one and the
\* tag itself otherwise.
C2_RoundTripResolved ==
    out.op = "deserialize" =>
        /\ out.result.ok
        /\ Triples(out.result.versions, out.result.aliases)
               = ResolvedTriples(versions, aliases)
        /\ out.result.aliases = aliases

C2_Witness ==
    /\ out.op = "deserialize"
    /\ out.result.ok
    /\ Cardinality(DOMAIN versions) >= 2
    /\ \E t \in DOMAIN versions : versions[t].title = None
    /\ \E t \in DOMAIN versions : versions[t].title # None
    /\ \E t \in DOMAIN versions : Cardinality({a \in DOMAIN aliases : aliases[a] = t}) = 2

HasDuplicate(items) ==
    \E i, j \in 1..Len(items) : i # j /\ items[i].version = items[j].version

\* C3: parsing a document fails with the duplicate-tag error exactly when
\* two of its items have the same version; otherwise it succeeds and the
\* registry holds one Version per item, under the item's tag.
C3_DuplicateIff ==
    out.op = "parse" =>
        /\ (~out.result.ok) <=> HasDuplicate(document)
        /\ (~out.result.ok) => out.result.err = DuplicateTag
        /\ ~HasDuplicate(document) =>
               /\ out.result.ok
               /\ DOMAIN out.result.versions = {document[i].version : i \in 1..Len(document)}
               /\ Cardinality(DOMAIN out.result.versions) = Len(document)
               /\ \A i \in 1..Len(document) :
                      out.result.versions[document[i].version]
                          = Version(document[i].version, document[i].title)

C3_Witness ==
    /\ out.op = "parse"
    /\ Len(document) = 3
    /\ document[1].version = document[3].version
    /\ document[1].version # document[2].version
    /\ ~out.result.ok

\* The calls that named the alias a.
CallsNaming(a) == {i \in 1..Len(calls) : a \in calls[i].aliases}

\* Every alias is bound to the tag of the latest call that named it, and
\* to nothing when no call did.
LastWriteWins ==
    \A a \in RegAliases :
        IF CallsNaming(a) = {} THEN a \notin DOMAIN aliases
        ELSE a \in DOMAIN aliases /\ aliases[a] = calls[Max(CallsNaming(a))].tag

\* What a call add(tag, title, aliases) changes and what it leaves alone.
AddFrame ==
    LET c == calls'[Len(calls')]
    IN  /\ DOMAIN versions' = DOMAIN versions \cup {c.tag}
        /\ versions'[c.tag] = Version(c.tag, c.title)
        /\ \A t \in DOMAIN versions \ {c.tag} : versions'[t] = versions[t]
        /\ DOMAIN aliases' = DOMAIN aliases \cup c.aliases
        /\ \A a \in c.aliases : aliases'[a] = c.tag
        /\ \A a \in DOMAIN aliases \ c.aliases : aliases'[a] = aliases[a]

\* C4: after any sequence of add calls every alias is bound to the tag of
\* the latest call whose alias set held it; a call changes only the Version
\* under its tag and the bindings of its aliases, and unbinds no alias.
C4_LastWriteWins ==
    /\ []LastWriteWins
    /\ [][calls' # calls => AddFrame]_vars

C4_Witness ==
    /\ Len(calls) = 3
    /\ calls[1].tag # calls[2].tag
    /\ calls[1].aliases = {A_latest, A_stable}
    /\ calls[2].aliases = {A_latest}
    /\ calls[3].aliases = {}
    /\ aliases[A_latest] = calls[2].tag
    /\ aliases[A_stable] = calls[1].tag

\* C5: an add call with the arguments of the call before it leaves the
\* version map and the alias map as that call left them.
C5_Idempotent ==
    [][(/\ calls # <<>>
        /\ Len(calls') = Len(calls) + 1
        /\ calls'[Len(calls')] = calls[Len(calls)])
          => (versions' = versions /\ aliases' = aliases)]_vars

C5_Witness ==
    /\ Len(calls) = 3
    /\ calls[3] = calls[2]
    /\ calls[2].tag # calls[1].tag
    /\ calls[2].aliases = {A_latest}
    /\ calls[1].aliases = {A_latest, A_stable}
    /\ calls[2].title # None

IsCatchAll(line) == Len(line) >= 4 /\ SubSeq(line, 1, 4) = <<"/", "*", " ", "/">>

\* C6: the redirect document has one line per alias binding and nothing
\* else but, exactly when the default alias is bound, one catch-all line,
\* which is the last line and leads to the tag of the default alias.
C6_Rewrites ==
    out.op = "rewrites" =>
        LET lines == out.lines
            n     == Cardinality(DOMAIN aliases)
            perAlias == {i \in 1..Len(lines) :
                            \E a \in DOMAIN aliases : lines[i] = AliasLine(a, aliases[a])}
            catchAll == {i \in 1..Len(lines) : IsCatchAll(lines[i])}
        IN  /\ \A a \in DOMAIN aliases :
                   Cardinality({i \in 1..Len(lines) : lines[i] = AliasLine(a, aliases[a])}) = 1
            /\ Cardinality(perAlias) = n
            /\ perAlias \cup catchAll = 1..Len(lines)
            /\ IF out.default_alias \in DOMAIN aliases
               THEN /\ catchAll = {Len(lines)}
                    /\ lines[Len(lines)] = CatchAllLine(aliases[out.default_alias])
               ELSE catchAll = {}

C6_Witness ==
    /\ out.op = "rewrites"
    /\ out.default_alias = A_latest
    /\ DOMAIN aliases = {A_latest, A_stable}
    /\ aliases[A_latest] # aliases[A_stable]
    /\ Len(out.lines) = 3
    /\ out.lines[1] = AliasLine(A_stable, aliases[A_stable])

\* C8: the document written has one entry per version of the map, in the
\* order of the ordering relation; the title of an entry is the explicit
\* title, or the tag when there is none, and its aliases are the aliases
\* bound to its tag.
C8_Serialize ==
    out.op = "serialize" =>
        LET doc == out.doc
        IN  /\ Len(doc) = Cardinality(DOMAIN versions)
            /\ {doc[i].version : i \in 1..Len(doc)} = DOMAIN versions
            /\ \A i, j \in 1..Len(doc) :
                   i < j => cmp(versions[doc[i].version], versions[doc[j].version]) # "Greater"
            /\ \A i \in 1..Len(doc) :
                   LET v == versions[doc[i].version]
                       bound == {a \in DOMAIN aliases : aliases[a] = v.tag}
                   IN  /\ doc[i].title = Some(IF v.title = None THEN v.tag ELSE v.title[1])
                       /\ Range(doc[i].aliases) = bound
                       /\ Len(doc[i].aliases) = Cardinality(bound)

\* The scenario of the claim: a version v2.0.0 without a title, with the
\* alias stable, and an older version without title or alias.
C8_Witness ==
    /\ out.op = "serialize"
    /\ DOMAIN versions = {T_v2_0_0, T_1_0}
    /\ versions[T_v2_0_0].title = None
    /\ versions[T_1_0].title = None
    /\ DOMAIN aliases = {A_stable}
    /\ aliases[A_stable] = T_v2_0_0
    /\ out.doc = <<[version |-> T_v2_0_0, title |-> Some(T_v2_0_0), aliases |-> <<A_stable>>],
                   [version |-> T_1_0, title |-> Some(T_1_0), aliases |-> <<>>]>>

\* C14: two versions of the registry with different tags never compare
\* Equal, so that the entries of the serialized document have one order for
\* the registry, whatever the iteration order of the maps; and the lines of
\* the redirect document have one order for the alias map and the default
\* alias, whatever the iteration order of the map.
C14_Deterministic ==
    /\ \A s, t \in DOMAIN versions :
           s # t => cmp(versions[s], versions[t]) # "Equal"
    /\ out.op = "serialize" =>
           \A vorder \in Orders(DOMAIN versions), aorder \in Orders(DOMAIN aliases) :
               ToDocument(versions, aliases, vorder, aorder) = out.doc
    /\ out.op = "rewrites" =>
           \A aorder \in Orders(DOMAIN aliases) :
               netlify_rewrites(aliases, aorder, out.default_alias) = out.lines

\* ------------------------------------------------------------------ building a Commit

NextCommit ==
    \/ SetMessage(Message_1)
    \/ SetParent(Parent_1)
    \/ \E path \in DeletePaths : DeletePath(path)
    \/ \E path \in FilePaths, mode \in FileModes, bytes \in FileDatas :
           AddBytes(path, mode, bytes)
    \/ AddFileOk(P_b_txt, <<7>>)
    \/ AddFileErr(P_b_txt)
    \/ WriteTo("1700000000")

SpecCommit == Init /\ [][NextCommit]_vars

\* The insertions of the history for a path, and the paths inserted.
InsertsOf(path) == {i \in 1..Len(ops) : ops[i].op = "add" /\ ops[i].path = path}

InsertedPaths == {ops[i].path : i \in {j \in 1..Len(ops) : ops[j].op = "add"}}

DeletedPaths == {ops[i].path : i \in {j \in 1..Len(ops) : ops[j].op = "delete_path"}}

LinesOf(kind) == {i \in 1..Len(stream[1]) : stream[1][i][1] = kind}

\* C7: the document written has one M block per distinct path inserted,
\* with the mode and the bytes of the latest insertion for the path, the
\* M blocks in ascending order of path whatever the order of insertion;
\* and one D line per distinct path deleted, in ascending order.
C7_SortedBlocks ==
    stream # None =>
        LET lines == stream[1]
        IN  /\ Cardinality(LinesOf("M")) = Cardinality(InsertedPaths)
            /\ \A path \in InsertedPaths :
                   \E i \in LinesOf("M") :
                       LET last == ops[Max(InsertsOf(path))]
                       IN  /\ lines[i] = <<"M", Octal6(last.mode), "inline", path>>
                           /\ lines[i + 1] = <<"data", Len(last.data)>>
                           /\ lines[i + 2] = <<"raw", last.data>>
            /\ \A i, j \in LinesOf("M") :
                   i < j => StrCmp(lines[i][4], lines[j][4]) = "Less"
            /\ Cardinality(LinesOf("D")) = Cardinality(DeletedPaths)
            /\ \A path \in DeletedPaths : \E i \in LinesOf("D") : lines[i] = <<"D", path>>
            /\ \A i, j \in LinesOf("D") :
                   i < j => StrCmp(lines[i][2], lines[j][2]) = "Less"

\* b.txt is inserted twice and then a.txt, and the document has a.txt first.
C7_Witness ==
    /\ stream # None
    /\ Len(ops) = 3
    /\ ops[1].op = "add" /\ ops[1].path = P_b_txt
    /\ ops[2].op = "add" /\ ops[2].path = P_b_txt
    /\ ops[2].mode # ops[1].mode /\ ops[2].data # ops[1].data
    /\ ops[3].op = "add" /\ ops[3].path = P_a_txt
    /\ Cardinality(LinesOf("M")) = 2

\* Whether parent was called, and the message of the latest call of message.
ParentSet == \E i \in 1..Len(ops) : ops[i].op = "parent"

RECURSIVE MessageSet(_)
MessageSet(i) ==
    IF i = 0 THEN <<>>
    ELSE IF ops[i].op = "message" THEN ops[i].message
    ELSE MessageSet(i - 1)

\* C12: the document written has its parts in this order: one commit line
\* for the ref, one author line, one committer line, the data block of the
\* message with the length of the message, a from line exactly when a
\* parent was set, then a deleteall line or D lines but never both, then
\* the M blocks, each followed by a data line with the length of its bytes
\* and the bytes, and one done line at the end; no D line follows an M line.
C12_FixedOrder ==
    stream # None =>
        LET lines   == stream[1]
            n       == Len(lines)
            body    == IF ParentSet THEN 7 ELSE 6
            removes == LinesOf("deleteall") \cup LinesOf("D")
        IN  /\ n >= 6
            /\ LinesOf("commit") = {1} /\ lines[1] = <<"commit", RefName>>
            /\ LinesOf("author") = {2}
            /\ LinesOf("committer") = {3}
            /\ lines[4] = <<"data", Len(MessageSet(Len(ops)))>>
            /\ lines[5] = <<"text", MessageSet(Len(ops))>>
            /\ LinesOf("text") = {5}
            /\ LinesOf("from") = IF ParentSet THEN {6} ELSE {}
            /\ Cardinality(LinesOf("deleteall")) <= 1
            /\ ~(LinesOf("deleteall") # {} /\ LinesOf("D") # {})
            /\ removes = body .. (body + Cardinality(removes) - 1)
            /\ \A i \in LinesOf("D"), j \in LinesOf("M") : i < j
            /\ \A i \in LinesOf("M") :
                   /\ i + 2 < n
                   /\ lines[i + 1][1] = "data"
                   /\ lines[i + 2][1] = "raw"
                   /\ lines[i + 1][2] = Len(lines[i + 2][2])
            /\ LinesOf("raw") = {i + 2 : i \in LinesOf("M")}
            /\ LinesOf("data") = {4} \cup {i + 1 : i \in LinesOf("M")}
            /\ LinesOf("M") = {i \in (body + Cardinality(removes)) .. (n - 1) :
                                   (i - body - Cardinality(removes)) % 3 = 0}
            /\ LinesOf("done") = {n}

\* A parent is set, a path deleted and a file added, and the document has
\* the from line, the D line and the M block in that order.
C12_Witness ==
    /\ stream # None
    /\ ParentSet
    /\ DeletedPaths # {}
    /\ InsertedPaths # {}
    /\ LinesOf("from") = {6}
    /\ LinesOf("D") = {7}
    /\ LinesOf("M") = {8}
    /\ Len(stream[1]) = 11

\* ------------------------------------------------------------------ running a Commit

\* Sequences of at most n pieces of diagnostic output.
RECURSIVE Stderrs(_)
Stderrs(n) ==
    IF n = 0 THEN {<<>>}
    ELSE Stderrs(n - 1) \cup
         {Append(t, piece) : t \in {u \in Stderrs(n - 1) : Len(u) = n - 1}, piece \in StderrPieces}

NextRun ==
    \/ SetParent(Parent_1)
    \/ \E child \in Children(Stderrs(MaxStderr)) : Run(child, "1700000000")

SpecRun == Init /\ [][NextRun]_vars

Seen_(field) == run[1].seen[field]

ExitedNonzero == Seen_("waited") /\ Seen_("status") # Some(0)

\* C9, as claimed: run succeeds exactly when the tool was spawned and
\* exited with status zero; a non-zero exit is the non-fast-forward error
\* when the diagnostic output has "Not updating" and "non-fast-forward",
\* and the generic failure with the trimmed output in every other case.
C9_Claimed ==
    run # None =>
        LET r == run[1].result
        IN  /\ r.ok <=> (Seen_("spawned") /\ Seen_("status") = Some(0))
            /\ ExitedNonzero =>
                   LET text == Trim(Seen_("stderr")[1])
                   IN  IF Contains(text, NotUpdating) /\ Contains(text, NonFastForward)
                       THEN r.kind = "non_fast_forward" /\ r.text[3] = Hint
                       ELSE r.kind = "failed" /\ r.text[2] = text

\* C9, amended: run succeeds exactly when the tool was spawned, took the
\* document, was waited for and exited with status zero; a non-zero exit is
\* the non-fast-forward error when the diagnostic output has "Not updating"
\* and either "does not contain" or "non-fast-forward", and the generic
\* failure with the trimmed output in every other case.
C9_Classified ==
    run # None =>
        LET r == run[1].result
        IN  /\ r.ok <=> (Seen_("spawned") /\ Seen_("piped") /\ Seen_("waited")
                            /\ Seen_("status") = Some(0))
            /\ ExitedNonzero =>
                   LET text == Trim(Seen_("stderr")[1])
                   IN  IF /\ Contains(text, NotUpdating)
                          /\ (Contains(text, DoesNotContain) \/ Contains(text, NonFastForward))
                       THEN /\ r.kind = "non_fast_forward"
                            /\ r.text[3] = Hint
                            /\ r.text[4] = text
                       ELSE r.kind = "failed" /\ r.text[2] = text

C9_Witness ==
    /\ run # None
    /\ Seen_("status") = Some(128)
    /\ Seen_("stderr") = Some(<<NotUpdating, DoesNotContain, "\n">>)
    /\ run[1].result.kind = "non_fast_forward"
    /\ run[1].result.text[4] = <<NotUpdating, DoesNotContain>>

\* ------------------------------------------------------------------ the deploy and list commands

VERSIONS_FILE == <<"v", "e", "r", "s", "i", "o", "n", "s", ".", "j", "s", "o", "n">>

REDIRECTS == <<"_", "r", "e", "d", "i", "r", "e", "c", "t", "s">>

GITIGNORE == <<".", "g", "i", "t", "i", "g", "n", "o", "r", "e">>

NOJEKYLL == <<".", "n", "o", "j", "e", "k", "y", "l", "l">>

\* The text of a JSON document is one unit that holds the items.
JsonText(items) == <<[kind |-> "json", items |-> items]>>

\* A text that is no JSON array of version items.
Garbage == <<[kind |-> "garbage"]>>

\* serde_json::from_str::<Versions>
from_str(text) ==
    IF text[1].kind = "json" THEN FromDocument(text[1].items)
    ELSE [ok |-> FALSE, err |-> "expected value"]

\* git show <remote_rev>:versions.json: the text, or None for an error.
\* The command fails when the branch has no such file, and can fail anyway.
git_show(doc, showOk) == IF doc # None /\ showOk THEN doc ELSE None

\* Whether from_git falls back on the default: and_then(..).unwrap_or_default()
\* takes the default for an error of git show and for an error of parsing.
FellBack(doc, showOk) ==
    \/ git_show(doc, showOk) = None
    \/ ~from_str(git_show(doc, showOk)[1]).ok

\* Versions::from_git
from_git(doc, showOk) ==
    IF FellBack(doc, showOk) THEN [versions |-> EmptyMap, aliases |-> EmptyMap]
    ELSE [versions |-> from_str(git_show(doc, showOk)[1]).versions,
          aliases  |-> from_str(git_show(doc, showOk)[1]).aliases]

\* The lines of a document as bytes, each line ended by a newline.
RECURSIVE IntoBytes(_)
IntoBytes(lines) ==
    IF lines = <<>> THEN <<>> ELSE Head(lines) \o <<"\n">> \o IntoBytes(Tail(lines))

\* PathBuf::join
PathJoin(dir, rel) == IF dir = <<>> THEN rel ELSE dir \o <<"/">> \o rel

Fail(kind) ==
    [cli EXCEPT !.pc = "done", !.result = Some(Err(kind, <<>>))]

\* deploy: git show -s --format=%h
DeployShowSha(ok) ==
    /\ cli.pc = "start" /\ cli.cmd = "deploy"
    /\ cli' = IF ok THEN [cli EXCEPT !.pc = "sha"] ELSE Fail("git show")
    /\ UNCHANGED <<remote, orderVars, registryVars, commitVars, runVars>>

\* deploy and list: git fetch <remote> <branch>
Fetch(ok) ==
    /\ \/ cli.pc = "sha" /\ cli.cmd = "deploy"
       \/ cli.pc = "start" /\ cli.cmd = "list"
    /\ cli' = IF ok THEN [cli EXCEPT !.pc = "fetched", !.fetched = TRUE] ELSE Fail("git fetch")
    /\ UNCHANGED <<remote, orderVars, registryVars, commitVars, runVars>>

\* deploy and list: Versions::from_git(&remote_rev)
Load(showOk) ==
    /\ cli.pc = "fetched"
    /\ versions' = from_git(remote.doc, showOk).versions
    /\ aliases' = from_git(remote.doc, showOk).aliases
    /\ cli' = [cli EXCEPT !.pc = "loaded", !.fallback = FellBack(remote.doc, showOk)]
    /\ UNCHANGED <<calls, document, out, remote, orderVars, commitVars, runVars>>

\* list: the versions are printed, as JSON or line by line.
ListPrint(vorder, aorder) ==
    /\ cli.pc = "loaded" /\ cli.cmd = "list"
    /\ out' = [op |-> "serialize", doc |-> ToDocument(versions, aliases, vorder, aorder)]
    /\ cli' = [cli EXCEPT !.pc = "done", !.result = Some(Ok)]
    /\ UNCHANGED <<versions, aliases, calls, document, remote, orderVars, commitVars, runVars>>

\* deploy: versions.add(..) and serde_json::to_string_pretty(&versions)
DeployUpsert(vorder, aorder) ==
    /\ cli.pc = "loaded" /\ cli.cmd = "deploy"
    /\ versions' = Insert(versions, cli.version, Version(cli.version, cli.title))
    /\ aliases' = InsertAliases(aliases, Range(cli.aliases), cli.version)
    /\ vorder \in Orders(DOMAIN versions')
    /\ aorder \in Orders(DOMAIN aliases')
    /\ out' = [op |-> "serialize", doc |-> ToDocument(versions', aliases', vorder, aorder)]
    /\ cli' = [cli EXCEPT !.pc = "serialized"]
    /\ UNCHANGED <<calls, document, remote, orderVars, commitVars, runVars>>

\* The Commit of deploy before the files of the site are added.  gitignore
\* is None when there is no .gitignore, and else what reading it gave.
Assembled(parent_head, json, rewrites, gitignore, nojekyll) ==
    LET c0 == message(NewCommit(RefName), Message_1)
        c1 == IF parent_head # None THEN parent(c0, parent_head[1]) ELSE c0
        c2 == add_bytes(c1, VERSIONS_FILE, FileMode, json)
        c3 == Some(add_bytes(c2, REDIRECTS, FileMode, IntoBytes(rewrites)))
        c4 == IF gitignore # None THEN add_file(c3[1], GITIGNORE, gitignore[1]) ELSE c3
        c5 == IF c4 = None THEN None
              ELSE IF ~nojekyll THEN Some(add_bytes(c4[1], NOJEKYLL, FileMode, <<>>))
              ELSE c4
    IN  IF c5 = None THEN None
        ELSE Some(delete_path(c5[1], PathJoin(<<>>, cli.version)))

\* deploy: the Commit is made, with versions.json, _redirects, .gitignore
\* and .nojekyll, and the deletion of the version's directory.
DeployAssemble(parent_head, gitignore, nojekyll, aorder) ==
    /\ cli.pc = "serialized"
    /\ commit' = Assembled(parent_head, JsonText(out.doc),
                           netlify_rewrites(aliases, aorder, A_latest), gitignore, nojekyll)
    /\ cli' = IF commit' = None THEN Fail("io") ELSE [cli EXCEPT !.pc = "assembled"]
    /\ UNCHANGED <<ops, stream, env, remote, orderVars, registryVars, runVars>>

\* The loop of deploy going on after a file that cannot be read.
DeployAddFile_SkipUnreadable(read) ==
    /\ cli.pc = "assembled"
    /\ cli.next <= Len(cli.files)
    /\ commit' = IF read = None THEN commit
                 ELSE add_file(commit[1], PathJoin(cli.version, cli.files[cli.next]), read)
    /\ cli' = [cli EXCEPT !.next = @ + 1]
    /\ UNCHANGED <<ops, stream, env, remote, orderVars, registryVars, runVars>>

\* deploy: the next file of the site is added with add_file.
DeployAddFile(read) ==
    /\ cli.pc = "assembled"
    /\ cli.next <= Len(cli.files)
    /\ commit' = add_file(commit[1], PathJoin(cli.version, cli.files[cli.next]), read)
    /\ cli' = IF read = None THEN Fail("io") ELSE [cli EXCEPT !.next = @ + 1]
    /\ UNCHANGED <<ops, stream, env, remote, orderVars, registryVars, runVars>>

\* deploy: commit.run()?, after the loop over the files.  The import
\* creates the commit on the branch.
DeployRun(child, secs) ==
    /\ cli.pc = "assembled"
    /\ cli.next > Len(cli.files)
    /\ run' = Some([seen |-> Seen(child), result |-> run_result(commit[1], child)])
    /\ stream' = IF child.spawn THEN Some(write_to(commit[1], env, secs)) ELSE stream
    /\ cli' = IF run'[1].result.ok
              THEN [cli EXCEPT !.pc = "imported", !.imports = @ + 1]
              ELSE [cli EXCEPT !.pc = "done", !.result = Some(run'[1].result),
                               !.imports = @ + 1]
    /\ remote' = IF run'[1].result.ok
                 THEN [remote EXCEPT !.imported = Some(commit[1].files)]
                 ELSE remote
    /\ UNCHANGED <<commit, ops, env, orderVars, registryVars>>

\* deploy: git push <remote> <branch>, when asked for.
DeployPush(ok) ==
    /\ cli.pc = "imported"
    /\ cli.push
    /\ cli' = IF ok THEN [cli EXCEPT !.pc = "done", !.result = Some(Ok), !.pushes = @ + 1]
              ELSE [Fail("git push") EXCEPT !.pushes = @ + 1]
    /\ UNCHANGED <<remote, orderVars, registryVars, commitVars, runVars>>

\* deploy: no push was asked for.
DeployDone ==
    /\ cli.pc = "imported"
    /\ ~cli.push
    /\ cli' = [cli EXCEPT !.pc = "done", !.result = Some(Ok)]
    /\ UNCHANGED <<remote, orderVars, registryVars, commitVars, runVars>>

Item_dev    == [version |-> T_dev, title |-> Some(Title_1), aliases |-> <<A_latest>>]
Item_dev_2  == [version |-> T_dev, title |-> Some(T_dev), aliases |-> <<>>]
Item_1_0    == [version |-> T_1_0, title |-> Some(T_1_0), aliases |-> <<A_stable>>]

\* The versions.json the target branch can have: none, one that is no
\* JSON, and documents with and without a repeated tag.
RemoteDocs ==
    {None, Some(Garbage), Some(JsonText(<<>>)), Some(JsonText(<<Item_dev>>)),
     Some(JsonText(<<Item_dev, Item_1_0>>)), Some(JsonText(<<Item_dev, Item_dev_2>>))}

\* The command lines.
CommandLines ==
    [cmd : {"deploy"}, version : {T_v2_0_0}, title : {None},
     aliases : {<<>>, <<A_latest>>}, push : BOOLEAN,
     files : {<<>>, <<P_a>>}]
    \cup [cmd : {"list"}, version : {T_v2_0_0}, title : {None}, aliases : {<<>>},
          push : {FALSE}, files : {<<>>}]

\* The command starts.
Started(line) ==
    [cmd |-> line.cmd, version |-> line.version, title |-> line.title,
     aliases |-> line.aliases, push |-> line.push, files |-> line.files,
     pc |-> "start", result |-> None, fetched |-> FALSE, fallback |-> FALSE,
     next |-> 1, imports |-> 0, pushes |-> 0]

InitDeploy ==
    /\ InitRegistry
    /\ vec = <<>>
    /\ vecSorted = FALSE
    /\ InitCommit
    /\ cli \in {Started(line) : line \in CommandLines}
    /\ remote \in {[doc |-> d, imported |-> None] : d \in RemoteDocs}

\* What git fast-import does in a deploy.
DeployChildren == Children({<<>>, <<NotUpdating, DoesNotContain>>})

NextDeploy ==
    \/ \E ok \in BOOLEAN : DeployShowSha(ok)
    \/ \E ok \in BOOLEAN : Fetch(ok)
    \/ \E showOk \in BOOLEAN : Load(showOk)
    \/ \E vorder \in Orders(DOMAIN versions), aorder \in Orders(DOMAIN aliases) :
           ListPrint(vorder, aorder)
    \/ \E vorder \in Orders(RegTags \cap (DOMAIN versions \cup {cli.version})),
          aorder \in Orders(RegAliases \cap (DOMAIN aliases \cup Range(cli.aliases))) :
           DeployUpsert(vorder, aorder)
    \/ \E parent_head \in {None, Some(Parent_1)},
          gitignore \in {None, Some(None), Some(Some(<<7>>))},
          nojekyll \in BOOLEAN,
          aorder \in Orders(DOMAIN aliases) :
           DeployAssemble(parent_head, gitignore, nojekyll, aorder)
    \/ \E read \in {None, Some(<<10, 7>>)} : DeployAddFile(read)
    \/ \E child \in DeployChildren : DeployRun(child, "1700000000")
    \/ \E ok \in BOOLEAN : DeployPush(ok)
    \/ DeployDone

SpecDeploy == InitDeploy /\ [][NextDeploy]_vars

\* The document on the branch is there and cannot be parsed.
Unparseable == remote.doc # None /\ ~from_str(remote.doc[1]).ok

\* The tags of a document that is JSON.
TagsOf(text) ==
    IF text[1].kind = "json" THEN {text[1].items[i].version : i \in 1..Len(text[1].items)}
    ELSE {}

\* C10: loading the persisted document gives the empty registry by default
\* only when the document is missing from the branch; when it is there and
\* malformed or with a repeated tag, deploy and list fail, and no deploy
\* imports a versions.json without the versions of the unparseable one.
C10_ErrorsSurfaced ==
    /\ (cli.pc # "idle" /\ cli.fallback) => remote.doc = None
    /\ (cli.pc = "done" /\ Unparseable) => ~cli.result[1].ok
    /\ (cli.pc # "idle" /\ Unparseable /\ remote.imported # None) =>
           TagsOf(remote.doc[1]) \subseteq TagsOf(remote.imported[1][VERSIONS_FILE].data)

\* The paths in the Commit of the files of the site.
SitePaths == {PathJoin(cli.version, cli.files[i]) : i \in 1..Len(cli.files)}

\* What holds in every state of a deploy.
DeployOrdered ==
    cli.pc # "idle" /\ cli.cmd = "deploy" =>
        /\ cli.imports <= 1
        /\ cli.imports = 1 =>
               /\ cli.fetched
               /\ cli.next = Len(cli.files) + 1
               /\ SitePaths \subseteq DOMAIN commit[1].files
               /\ run # None
        /\ cli.pushes <= 1
        /\ cli.pushes = 1 =>
               /\ cli.push
               /\ cli.imports = 1
               /\ run[1].result.ok
        /\ cli.imports = 0 <=> run = None
        /\ (cli.pc = "done" /\ ~cli.result[1].ok /\ cli.pushes = 0 /\ cli.imports = 1) =>
               cli.result = Some(run[1].result)
        /\ cli.imports = 0 => cli.pushes = 0 /\ remote.imported = None
        /\ (run # None /\ ~run[1].result.ok) =>
               cli.pc = "done" /\ cli.result = Some(run[1].result) /\ cli.pushes = 0

\* What holds of every step of a deploy.
DeployStep ==
    cli.pc # "idle" /\ cli.cmd = "deploy" =>
        /\ cli.pc # "done"
        /\ (cli.pc = "sha" /\ cli'.pc # "fetched") =>
               cli'.pc = "done" /\ cli'.result = Some(Err("git fetch", <<>>))
        /\ (cli.pc = "assembled" /\ cli.next <= Len(cli.files) /\ cli'.next = cli.next) =>
               cli'.pc = "done" /\ cli'.result = Some(Err("io", <<>>))
        /\ cli'.imports # cli.imports =>
               /\ cli.pc = "assembled"
               /\ run'[1].result.ok => cli'.pc = "imported"
               /\ ~run'[1].result.ok => cli'.pc = "done" /\ cli'.result = Some(run'[1].result)
        /\ cli'.pushes # cli.pushes =>
               /\ cli.pc = "imported"
               /\ cli.push
        /\ (cli.pc = "imported" /\ ~cli'.result[1].ok) =>
               cli'.result = Some(Err("git push", <<>>))

\* C13: in a deploy the import is run at most once, and only after the
\* fetch succeeded and every file of the site was read; the push is tried
\* only after the import succeeded and only with the push flag; when the
\* fetch, the reading of a file or the import fails, deploy returns that
\* error and takes no later step.
C13_DeployOrder == []DeployOrdered /\ [][DeployStep]_vars

\* A deploy of one file with the push flag has imported and pushed.
C13_Witness ==
    /\ cli.pc = "done"
    /\ cli.cmd = "deploy"
    /\ cli.result = Some(Ok)
    /\ Len(cli.files) = 1
    /\ cli.imports = 1
    /\ cli.pushes = 1
    /\ remote.imported # None

\* ------------------------------------------------------------------ the identity of a Commit

\* The variables GIT_<scope>_<field> that get_env_value reads.
EnvKeys == {"AUTHOR", "COMMITTER"} \X {"NAME", "EMAIL", "DATE"}

\* A value of the variable of a key: a plain one, and one with the
\* characters that sanitize_identity_part takes out.
EnvValue(key, kind) ==
    IF kind = "plain" THEN <<key[1], ".", key[2]>>
    ELSE <<"<", key[1], ">", key[2], "\n">>

\* The environment where each variable is absent, plain or dirty.
EnvOf(kinds) ==
    [key \in {k \in EnvKeys : kinds[k] # "absent"} |-> EnvValue(key, kinds[key])]

Envs == {EnvOf(kinds) : kinds \in [EnvKeys -> {"absent", "plain", "dirty"}]}

\* The seconds since the epoch as now_when formats them; 0 when the clock
\* is before the epoch.
Secs == {"0", "1700000000"}

InitIdentity ==
    /\ InitRegistry
    /\ vec = <<>>
    /\ vecSorted = FALSE
    /\ InitCli
    /\ commit = Some(NewCommit(RefName))
    /\ ops = <<>>
    /\ stream = None
    /\ run = None
    /\ env \in Envs

NextIdentity == \E secs \in Secs : WriteTo(secs)

SpecIdentity == InitIdentity /\ [][NextIdentity]_vars

\* The author and committer lines for the three fields of each.
IdentityLines(a, cm) ==
    << <<"author", name_field(a[1]), <<"<">> \o a[2] \o <<">">>, a[3]>>,
       <<"committer", name_field(cm[1]), <<"<">> \o cm[2] \o <<">">>, cm[3]>> >>

\* C11: with no identity set on the Commit, each author field is the
\* value of its GIT_AUTHOR_ variable when that is set and else the default
\* (the bot's name and email, the current time), never the value of a
\* GIT_COMMITTER_ variable; each committer field is the value of its
\* GIT_COMMITTER_ variable when that is set and else the author field.
C11_IdentityResolution ==
    stream # None =>
        \E secs \in Secs :
            LET a  == <<UnwrapOr(get_env_value(env, "AUTHOR", "NAME"), DEFAULT_AUTHOR_NAME),
                        UnwrapOr(get_env_value(env, "AUTHOR", "EMAIL"), DEFAULT_AUTHOR_EMAIL),
                        UnwrapOr(get_env_value(env, "AUTHOR", "DATE"), now_when(secs))>>
                cm == <<UnwrapOr(get_env_value(env, "COMMITTER", "NAME"), a[1]),
                        UnwrapOr(get_env_value(env, "COMMITTER", "EMAIL"), a[2]),
                        UnwrapOr(get_env_value(env, "COMMITTER", "DATE"), a[3])>>
            IN  <<stream[1][2], stream[1][3]>> = IdentityLines(a, cm)

\* ------------------------------------------------------------------ sorting a Vec<Version>

InitOrder ==
    /\ vec = <<>>
    /\ vecSorted = FALSE
    /\ InitRegistry
    /\ InitCommit
    /\ InitCli

\* Vec::push of a version whose tag is not yet in the vector.
Push(tag) ==
    /\ Len(vec) < MaxVec
    /\ \A i \in 1..Len(vec) : vec[i].tag # tag
    /\ vec' = Append(vec, Version(tag, None))
    /\ vecSorted' = FALSE
    /\ UNCHANGED nonOrderVars

\* versions.sort()
Sort ==
    /\ vec # <<>>
    /\ vec' = SortVersions(vec)
    /\ vecSorted' = TRUE
    /\ UNCHANGED nonOrderVars

NextOrder ==
    \/ \E tag \in OrderTags : Push(tag)
    \/ Sort

SpecOrder == InitOrder /\ [][NextOrder]_vars

IsSemver(v) == Parsed(v.tag) # None

SemverOf(v) == Parsed(v.tag)[1]

\* C1: a sorted vector of versions has the versions without a semver tag
\* first, in reverse lexicographic order of the tag, and then the versions
\* with a semver tag in strictly descending order of the parsed value.
C1_SortedTiers ==
    vecSorted =>
        \A i, j \in 1..Len(vec) :
            i < j =>
                LET a == vec[i]
                    b == vec[j]
                IN  /\ ~(IsSemver(a) /\ ~IsSemver(b))
                    /\ (~IsSemver(a) /\ ~IsSemver(b)) => StrCmp(a.tag, b.tag) = "Greater"
                    /\ (IsSemver(a) /\ IsSemver(b)) =>
                           SemverCmp(SemverOf(a), SemverOf(b)) = "Greater"

====
